---- MODULE Spec2Model ----
(***************************************************************************)
(* Model of the eot gas calculator: the fork-ordered opcode registry, the  *)
(* execution context, the per-opcode dynamic gas formulas of               *)
(* DynamicGasCalculator and the sequence analysis loop.                    *)
(***************************************************************************)
EXTENDS Integers, Sequences, FiniteSets, TLC

VARIABLES
    fork,        \* DynamicGasCalculator.fork
    key_order,   \* iteration order of OpcodeRegistry.opcodes.keys()
    input,       \* the entries of `opcodes` consumed so far by the loop
    context,     \* the ExecutionContext of the analysis / of the query
    total_gas,   \* analyze_sequence_gas: total_gas
    breakdown,   \* analyze_sequence_gas: breakdown
    warnings,    \* analyze_sequence_gas: warnings (the index of the entry warned about)
    status,      \* position of the running operation
    outcome,     \* value returned by the operation (a Result)
    q_opcode,    \* single query: opcode argument
    q_operands,  \* single query: operands argument
    call         \* the operation under way: its name and its other arguments

vars == <<fork, key_order, input, context, total_gas, breakdown, warnings,
          status, outcome, q_opcode, q_operands, call>>

----------------------------------------------------------------------------
(* Fork: the enum of lib.rs, ordered by declaration (derive(PartialOrd)).  *)

Frontier == 0
IceAge == 1
Homestead == 2
DaoFork == 3
TangerineWhistle == 4
SpuriousDragon == 5
Byzantium == 6
Constantinople == 7
Petersburg == 8
Istanbul == 9
MuirGlacier == 10
Berlin == 11
London == 12
Altair == 13
ArrowGlacier == 14
GrayGlacier == 15
Bellatrix == 16
Paris == 17
Shanghai == 18
Capella == 19
Cancun == 20
Deneb == 21

AllForks == Frontier..Deneb

\* The forks OpcodeRegistry::new registers, in registration order.
RegisteredForks ==
    <<Frontier, Homestead, Byzantium, Constantinople, Istanbul, Berlin,
      London, Shanghai, Cancun>>

----------------------------------------------------------------------------
(* Opcode bytes named by the match arms of calculate_dynamic_cost.         *)

ADD == 1
KECCAK256 == 32
BALANCE == 49
CALLDATACOPY == 55
CODECOPY == 57
EXTCODESIZE == 59
EXTCODECOPY == 60
RETURNDATACOPY == 62
EXTCODEHASH == 63
MLOAD == 81
MSTORE == 82
MSTORE8 == 83
SLOAD == 84
SSTORE == 85
TLOAD == 92
TSTORE == 93
MCOPY == 94
PUSH0 == 95
LOG0 == 160
LOG1 == 161
LOG2 == 162
LOG3 == 163
LOG4 == 164
CREATE == 240
CALL == 241
CALLCODE == 242
DELEGATECALL == 244
CREATE2 == 245
STATICCALL == 250
\* a byte no fork table defines
UNASSIGNED == 12

CallOps == {CALL, CALLCODE, DELEGATECALL, STATICCALL}
AccountOps == {BALANCE, EXTCODESIZE, EXTCODECOPY, EXTCODEHASH}
CopyOps == {CALLDATACOPY, CODECOPY, RETURNDATACOPY}
MemOps == {MLOAD, MSTORE, MSTORE8}
LogOps == {LOG0, LOG1, LOG2, LOG3, LOG4}
CreateOps == {CREATE, CREATE2}

----------------------------------------------------------------------------
(* Result<u64, String>.  The error strings of the calculator are kept by   *)
(* the class of the message: "Unknown opcode: ..", ".. not available       *)
(* before Cancun fork", ".. requires .. operand(s)".                       *)

Ok(v) == [ok |-> TRUE, val |-> v]
Err(e) == [ok |-> FALSE, err |-> e]
NoOutcome == [ok |-> FALSE, err |-> "none"]

UnknownOpcode == "UnknownOpcode"
UnsupportedOpcode == "UnsupportedOpcode"
MissingOperand == "MissingOperand"

----------------------------------------------------------------------------
(* Byte strings.  Model operands are below 2^31, so the four high bytes of *)
(* a u64 are zero.                                                         *)

Zeros(n) == [i \in 1..n |-> 0]

\* u64::to_be_bytes
to_be_bytes(v) ==
    <<0, 0, 0, 0,
      (v \div 16777216) % 256, (v \div 65536) % 256, (v \div 256) % 256, v % 256>>

\* let mut full_key = [0u8; 32]; full_key[24..32].copy_from_slice(&key_bytes)
full_key(v) == Zeros(24) \o to_be_bytes(v)

\* ExecutionContext::from_vec_storage_key: the 32-byte storage key of a
\* shorter big-endian byte string (left-padded with zeros).
from_vec_storage_key(bytes) == Zeros(32 - Len(bytes)) \o bytes

\* ExecutionContext::from_vec_address: the 20-byte address of a shorter
\* big-endian byte string (left-padded with zeros).
from_vec_address(bytes) == Zeros(20 - Len(bytes)) \o bytes

----------------------------------------------------------------------------
(* ExecutionContext                                                        *)

\* ExecutionContext::new
NewContext ==
    [memory_size |-> 0,
     accessed_storage_keys |-> {},
     accessed_addresses |-> {},
     call_depth |-> 0,
     is_static |-> FALSE,
     gas_price |-> 20,          \* 20 gwei, kept in gwei
     gas_limit |-> 30000000,
     gas_remaining |-> 1000000,
     current_address |-> Zeros(20),
     caller_address |-> Zeros(20),
     call_value |-> 0]

\* mark_storage_accessed that inserts nothing
mark_storage_accessed_forgets(c, address, key) == c

\* mark_storage_accessed that drops the slots marked before
mark_storage_accessed_replaces(c, address, key) ==
    [c EXCEPT !.accessed_storage_keys = {<<address, key>>}]

mark_storage_accessed(c, address, key) ==
    [c EXCEPT !.accessed_storage_keys = @ \cup {<<address, key>>}]

mark_address_accessed(c, address) ==
    [c EXCEPT !.accessed_addresses = @ \cup {address}]

is_storage_warm(c, address, key) == <<address, key>> \in c.accessed_storage_keys

is_address_warm(c, address) == address \in c.accessed_addresses

\* expand_memory without the `new_size > self.memory_size` test
expand_memory_unconditional(c, new_size) == [c EXCEPT !.memory_size = new_size]

expand_memory(c, new_size) ==
    IF new_size > c.memory_size THEN [c EXCEPT !.memory_size = new_size] ELSE c

\* call_depth is a u8: 255 + 1 overflows (panic in a debug build, wrap to 0
\* in a release build); the wrapped value is kept here.
enter_call(c) == [c EXCEPT !.call_depth = (@ + 1) % 256]

exit_call(c) == IF c.call_depth > 0 THEN [c EXCEPT !.call_depth = @ - 1] ELSE c

set_static(c, is_static) == [c EXCEPT !.is_static = is_static]

OutOfGas == "OutOfGas"

\* consume_gas that also refuses an amount equal to gas_remaining
consume_gas_refuses_equal(c, amount) ==
    IF c.gas_remaining <= amount
    THEN [result |-> Err(OutOfGas), ctx |-> c]
    ELSE [result |-> Ok(<<>>), ctx |-> [c EXCEPT !.gas_remaining = @ - amount]]

\* consume_gas: the Result returned and the context left
consume_gas(c, amount) ==
    IF c.gas_remaining < amount
    THEN [result |-> Err(OutOfGas), ctx |-> c]
    ELSE [result |-> Ok(<<>>), ctx |-> [c EXCEPT !.gas_remaining = @ - amount]]

reset_for_new_transaction(c) ==
    [c EXCEPT !.accessed_storage_keys = {},
              !.accessed_addresses = {},
              !.call_depth = 0,
              !.is_static = FALSE,
              !.memory_size = 0]

----------------------------------------------------------------------------
(* Opcode metadata provider: the per-fork opcode tables (forks/*.rs).      *)
(* A fork's own table lists every opcode active at that fork, the ones     *)
(* inherited from earlier forks included.  The record a table holds for a  *)
(* byte describes the opcode as of the table's fork: its gas_cost is the   *)
(* cost in force at that fork (validate_known_gas_changes reads 800 for    *)
(* SLOAD and 400 for BALANCE from the tables before Berlin) and its        *)
(* gas_history lists the changes up to that fork.  AllMetadata holds each  *)
(* opcode with its introduction cost and its history over all forks.       *)

Meta(b, intro, gas, hist) ==
    [opcode |-> b, introduced_in |-> intro, gas_cost |-> gas, gas_history |-> hist]

AllMetadata ==
    { Meta(ADD, Frontier, 3, <<>>),
      Meta(KECCAK256, Frontier, 30, <<>>),
      Meta(BALANCE, Frontier, 20,
           <<<<Frontier, 20>>, <<TangerineWhistle, 400>>, <<Berlin, 2600>>>>),
      Meta(CALLDATACOPY, Frontier, 3, <<>>),
      Meta(CODECOPY, Frontier, 3, <<>>),
      Meta(EXTCODESIZE, Frontier, 20,
           <<<<Frontier, 20>>, <<TangerineWhistle, 700>>, <<Berlin, 2600>>>>),
      Meta(EXTCODECOPY, Frontier, 20,
           <<<<Frontier, 20>>, <<TangerineWhistle, 700>>, <<Berlin, 2600>>>>),
      Meta(RETURNDATACOPY, Byzantium, 3, <<>>),
      Meta(EXTCODEHASH, Constantinople, 400,
           <<<<Constantinople, 400>>, <<Berlin, 2600>>>>),
      Meta(MLOAD, Frontier, 3, <<>>),
      Meta(MSTORE, Frontier, 3, <<>>),
      Meta(MSTORE8, Frontier, 3, <<>>),
      Meta(SLOAD, Frontier, 50,
           <<<<Frontier, 50>>, <<TangerineWhistle, 200>>, <<Istanbul, 800>>, <<Berlin, 2100>>>>),
      Meta(SSTORE, Frontier, 5000, <<>>),
      Meta(TLOAD, Cancun, 100, <<>>),
      Meta(TSTORE, Cancun, 100, <<>>),
      Meta(MCOPY, Cancun, 3, <<>>),
      Meta(PUSH0, Shanghai, 2, <<>>),
      Meta(LOG0, Frontier, 375, <<>>),
      Meta(LOG1, Frontier, 750, <<>>),
      Meta(LOG2, Frontier, 1125, <<>>),
      Meta(LOG3, Frontier, 1500, <<>>),
      Meta(LOG4, Frontier, 1875, <<>>),
      Meta(CREATE, Frontier, 32000, <<>>),
      Meta(CALL, Frontier, 40, <<<<Frontier, 40>>, <<TangerineWhistle, 700>>>>),
      Meta(CALLCODE, Frontier, 40, <<<<Frontier, 40>>, <<TangerineWhistle, 700>>>>),
      Meta(DELEGATECALL, Homestead, 40, <<<<Homestead, 40>>, <<TangerineWhistle, 700>>>>),
      Meta(CREATE2, Constantinople, 32000, <<>>),
      Meta(STATICCALL, Byzantium, 700, <<>>) }

\* the `gas:` literal of a record in the table of fork f: the last cost the
\* history lists up to f, the introduction cost when it lists none
RECURSIVE CostInForce(_, _, _)
CostInForce(hist, gas, f) ==
    IF hist = <<>> THEN gas
    ELSE IF hist[Len(hist)][1] <= f THEN hist[Len(hist)][2]
    ELSE CostInForce(SubSeq(hist, 1, Len(hist) - 1), gas, f)

\* the `gas_history:` list of a record in the table of fork f
HistoryUpTo(hist, f) == SelectSeq(hist, LAMBDA e : e[1] <= f)

\* T::all_opcodes() with T::metadata(): the byte -> metadata map of fork f.
OwnTable(f) ==
    LET ms == {m \in AllMetadata : m.introduced_in <= f}
    IN  [b \in {m.opcode : m \in ms} |->
            LET m == CHOOSE m \in ms : m.opcode = b
            IN  [m EXCEPT !.gas_cost = CostInForce(m.gas_history, m.gas_cost, f),
                          !.gas_history = HistoryUpTo(m.gas_history, f)]]

\* OpcodeRegistry::new: self.opcodes after the nine register_fork calls.
RegistryOpcodes ==
    [f \in {RegisteredForks[i] : i \in 1..Len(RegisteredForks)} |-> OwnTable(f)]

----------------------------------------------------------------------------
(* OpcodeRegistry                                                          *)

\* HashMap::extend: the entries of `more` replace those of `map`.
Extend(map, more) ==
    [b \in DOMAIN map \cup DOMAIN more |-> IF b \in DOMAIN more THEN more[b] ELSE map[b]]

EmptyMap == [b \in {} |-> 0]

\* OpcodeRegistry::get_opcodes: the loop over self.opcodes.keys(), taken in
\* the order `keys` in which the HashMap yields them.
\* get_opcodes_from keeping only the table registered for f itself
RECURSIVE get_opcodes_from_own_table_only(_, _, _)
RECURSIVE get_opcodes_from(_, _, _)
get_opcodes_from_own_table_only(keys, f, result) ==
    IF keys = <<>> THEN result
    ELSE get_opcodes_from_own_table_only(Tail(keys), f,
            IF Head(keys) = f THEN Extend(result, RegistryOpcodes[Head(keys)]) ELSE result)

get_opcodes_from(keys, f, result) ==
    IF keys = <<>> THEN result
    ELSE get_opcodes_from(Tail(keys), f,
            IF Head(keys) <= f THEN Extend(result, RegistryOpcodes[Head(keys)]) ELSE result)

Reverse(sq) == [i \in 1..Len(sq) |-> sq[Len(sq) + 1 - i]]

\* orders in which the registry's HashMap may yield its keys
KeyOrders == {RegisteredForks, Reverse(RegisteredForks)}

\* get_opcodes for every key order and fork, computed once
EffectiveOpcodes ==
    [keys \in KeyOrders |-> [f \in AllForks |-> get_opcodes_from(keys, f, EmptyMap)]]

get_opcodes(keys, f) == EffectiveOpcodes[keys][f]

\* OpcodeRegistry::is_opcode_available
is_opcode_available(keys, f, b) == b \in DOMAIN get_opcodes(keys, f)

----------------------------------------------------------------------------
(* DynamicGasCalculator: base cost and memory expansion                    *)

\* gas_history.iter().rev().find(|(f, _)| *f <= self.fork)
RECURSIVE rev_find(_, _)
rev_find(hist, f) ==
    IF hist = <<>> THEN <<>>
    ELSE IF hist[Len(hist)][1] <= f THEN <<hist[Len(hist)][2]>>
    ELSE rev_find(SubSeq(hist, 1, Len(hist) - 1), f)

\* gas_history.iter().find(..): the first entry that qualifies
RECURSIVE find(_, _)
find(hist, f) ==
    IF hist = <<>> THEN <<>>
    ELSE IF Head(hist)[1] <= f THEN <<Head(hist)[2]>>
    ELSE find(Tail(hist), f)

\* get_base_gas_cost taking the first qualifying entry of the history
get_base_gas_cost_first_entry(f, metadata) ==
    LET found == find(metadata.gas_history, f)
    IN  IF found = <<>> THEN metadata.gas_cost ELSE found[1]

get_base_gas_cost(f, metadata) ==
    LET found == rev_find(metadata.gas_history, f)
    IN  IF found = <<>> THEN metadata.gas_cost ELSE found[1]

\* OpCode::gas_cost of an opcode of the fork type T: T::fork() is T_fork and
\* self.metadata() is metadata
OpCode_gas_cost(T_fork, metadata) ==
    LET found == rev_find(metadata.gas_history, T_fork)
    IN  IF found = <<>> THEN metadata.gas_cost ELSE found[1]

\* usize::div_ceil(32)
div_ceil32(size) == (size + 31) \div 32

\* memory_cost without the quadratic term
memory_cost_linear(size) == div_ceil32(size) * 3

memory_cost(size) ==
    LET size_in_words == div_ceil32(size)
        linear_cost == size_in_words * 3
        quadratic_cost == (size_in_words * size_in_words) \div 512
    IN  linear_cost + quadratic_cost

calculate_memory_expansion_cost(old_size, new_size) ==
    IF new_size <= old_size THEN 0 ELSE memory_cost(new_size) - memory_cost(old_size)

\* the `if new_memory_size > context.memory_size { expansion } else { 0 }`
\* that every formula wraps around calculate_memory_expansion_cost
expansion_if_larger(c, new_memory_size) ==
    IF new_memory_size > c.memory_size
    THEN calculate_memory_expansion_cost(c.memory_size, new_memory_size)
    ELSE 0

Max(a, b) == IF a >= b THEN a ELSE b

----------------------------------------------------------------------------
(* DynamicGasCalculator: the dynamic surcharge formulas.  `ops` is the     *)
(* operand slice; operands[k] of the source is ops[k + 1].                 *)

calculate_sload_cost(f, c, ops) ==
    IF f >= Berlin
    THEN IF Len(ops) = 0 THEN Err(MissingOperand)
         ELSE IF is_storage_warm(c, c.current_address, full_key(ops[1]))
              THEN Ok(100)
              ELSE Ok(2100)
    ELSE Ok(800)

\* calculate_sstore_cost charging the cold surcharge whatever the warm set holds
calculate_sstore_cost_ignores_warm(f, c, ops) ==
    IF Len(ops) < 2 THEN Err(MissingOperand)
    ELSE IF f >= Berlin THEN Ok(2100) ELSE Ok(0)

calculate_sstore_cost(f, c, ops) ==
    IF Len(ops) < 2 THEN Err(MissingOperand)
    ELSE LET key == from_vec_storage_key(to_be_bytes(ops[1]))
         IN  IF f >= Berlin
             THEN IF ~is_storage_warm(c, c.current_address, key) THEN Ok(2100) ELSE Ok(0)
             ELSE Ok(0)

calculate_tload_cost(f, c, ops) ==
    IF f >= Cancun
    THEN IF Len(ops) = 0 THEN Err(MissingOperand) ELSE Ok(100)
    ELSE Err(UnsupportedOpcode)

calculate_tstore_cost(f, c, ops) ==
    IF f >= Cancun
    THEN IF Len(ops) < 2 THEN Err(MissingOperand) ELSE Ok(100)
    ELSE Err(UnsupportedOpcode)

calculate_memory_cost(opcode, c, ops) ==
    IF Len(ops) = 0 THEN Err(MissingOperand)
    ELSE LET offset == ops[1]
             size == IF opcode = MSTORE8 THEN 1 ELSE 32
         IN  Ok(expansion_if_larger(c, offset + size))

calculate_mcopy_cost(f, c, ops) ==
    IF f < Cancun THEN Err(UnsupportedOpcode)
    ELSE IF Len(ops) < 3 THEN Err(MissingOperand)
    ELSE LET dst_offset == ops[1]
             size == ops[3]
         IN  Ok(expansion_if_larger(c, dst_offset + size) + div_ceil32(size) * 3)

\* call_value_transfer_cost without the cold-target account creation charge
call_value_transfer_cost_no_creation(value, is_warm) ==
    IF value > 0 THEN 9000 ELSE 0

\* the `value > 0` and `!is_address_warm` tests of calculate_call_cost
call_value_transfer_cost(value, is_warm) ==
    IF value > 0 THEN 9000 + (IF ~is_warm THEN 25000 ELSE 0) ELSE 0

calculate_call_cost(f, opcode, c, ops) ==
    IF Len(ops) < 7 THEN Err(MissingOperand)
    ELSE LET target_address == from_vec_address(to_be_bytes(ops[2]))
             value == IF opcode = CALL THEN ops[3] ELSE 0
             is_warm == is_address_warm(c, target_address)
             access == IF f >= Berlin THEN (IF is_warm THEN 0 ELSE 2600) ELSE 0
             max_memory_access == Max(ops[4] + ops[5], ops[6] + ops[7])
         IN  Ok(access + call_value_transfer_cost(value, is_warm)
                + expansion_if_larger(c, max_memory_access))

\* calculate_account_access_cost with the warm and cold prices exchanged
calculate_account_access_cost_warm_dearer(f, c, ops) ==
    IF f >= Berlin /\ Len(ops) > 0
    THEN LET address == from_vec_address(to_be_bytes(ops[1]))
         IN  Ok(IF is_address_warm(c, address) THEN 2600 ELSE 100)
    ELSE Ok(0)

calculate_account_access_cost(f, c, ops) ==
    IF f >= Berlin /\ Len(ops) > 0
    THEN LET address == from_vec_address(to_be_bytes(ops[1]))
         IN  Ok(IF is_address_warm(c, address) THEN 100 ELSE 2600)
    ELSE Ok(0)

calculate_copy_cost(c, ops) ==
    IF Len(ops) < 3 THEN Ok(0)
    ELSE LET dest_offset == ops[1]
             size == ops[3]
         IN  Ok(expansion_if_larger(c, dest_offset + size) + div_ceil32(size) * 3)

\* calculate_create_cost without the EIP-3860 init code charge
calculate_create_cost_no_init_code(f, opcode, c, ops) ==
    IF Len(ops) < 3 THEN Ok(0)
    ELSE LET offset == ops[2]
             size == ops[3]
             hashing == IF opcode = CREATE2 THEN div_ceil32(size) * 6 ELSE 0
         IN  Ok(32000 + hashing + expansion_if_larger(c, offset + size))

calculate_create_cost(f, opcode, c, ops) ==
    IF Len(ops) < 3 THEN Ok(0)
    ELSE LET offset == ops[2]
             size == ops[3]
             hashing == IF opcode = CREATE2 THEN div_ceil32(size) * 6 ELSE 0
             init_code == IF f >= Shanghai THEN div_ceil32(size) * 2 ELSE 0
         IN  Ok(32000 + hashing + init_code + expansion_if_larger(c, offset + size))

calculate_keccak256_cost(c, ops) ==
    IF Len(ops) < 2 THEN Ok(0)
    ELSE LET offset == ops[1]
             size == ops[2]
         IN  Ok(expansion_if_larger(c, offset + size) + div_ceil32(size) * 6)

\* calculate_log_cost refusing a LOG in a static call context
calculate_log_cost_refused_when_static(opcode, c, ops) ==
    IF c.is_static THEN Err(UnsupportedOpcode)
    ELSE IF Len(ops) < 2 THEN Ok(0)
    ELSE LET offset == ops[1]
             size == ops[2]
             topic_count == opcode - LOG0
         IN  Ok(expansion_if_larger(c, offset + size) + topic_count * 375 + size * 8)

calculate_log_cost(opcode, c, ops) ==
    IF Len(ops) < 2 THEN Ok(0)
    ELSE LET offset == ops[1]
             size == ops[2]
             topic_count == opcode - LOG0
         IN  Ok(expansion_if_larger(c, offset + size) + topic_count * 375 + size * 8)

calculate_dynamic_cost(f, opcode, c, ops) ==
    CASE opcode = SLOAD -> calculate_sload_cost(f, c, ops)
      [] opcode = SSTORE -> calculate_sstore_cost(f, c, ops)
      [] opcode = TLOAD -> calculate_tload_cost(f, c, ops)
      [] opcode = TSTORE -> calculate_tstore_cost(f, c, ops)
      [] opcode \in MemOps -> calculate_memory_cost(opcode, c, ops)
      [] opcode = MCOPY -> calculate_mcopy_cost(f, c, ops)
      [] opcode \in CallOps -> calculate_call_cost(f, opcode, c, ops)
      [] opcode \in AccountOps -> calculate_account_access_cost(f, c, ops)
      [] opcode \in CopyOps -> calculate_copy_cost(c, ops)
      [] opcode \in CreateOps -> calculate_create_cost(f, opcode, c, ops)
      [] opcode = KECCAK256 -> calculate_keccak256_cost(c, ops)
      [] opcode \in LogOps -> calculate_log_cost(opcode, c, ops)
      [] OTHER -> Ok(0)

\* DynamicGasCalculator::calculate_gas_cost
calculate_gas_cost(keys, f, opcode, c, ops) ==
    LET opcodes == get_opcodes(keys, f)
    IN  IF opcode \notin DOMAIN opcodes THEN Err(UnknownOpcode)
        ELSE LET base_cost == get_base_gas_cost(f, opcodes[opcode])
                 dynamic_cost == calculate_dynamic_cost(f, opcode, c, ops)
             IN  IF dynamic_cost.ok THEN Ok(base_cost + dynamic_cost.val) ELSE dynamic_cost

----------------------------------------------------------------------------
(* DynamicGasCalculator::update_context.  The match arms are tried in     *)
(* source order; the result is the new context, or a panic when an arm    *)
(* indexes past the end of the operand slice.                             *)

Updated(c) == [panic |-> FALSE, ctx |-> c]
Panicked(c) == [panic |-> TRUE, ctx |-> c]

update_context(c, opcode, ops) ==
    IF opcode \in {SLOAD, SSTORE} /\ Len(ops) > 0
    THEN Updated(mark_storage_accessed(c, c.current_address,
                                       from_vec_storage_key(to_be_bytes(ops[1]))))
    ELSE IF opcode \in {TLOAD, TSTORE} /\ Len(ops) > 0
    THEN Updated(c)
    ELSE IF opcode \in AccountOps \cup CallOps /\ Len(ops) > 0
    THEN IF Len(ops) < 2
         THEN Panicked(c)      \* operands[1]: index out of bounds
         ELSE Updated(mark_address_accessed(c, from_vec_address(to_be_bytes(ops[2]))))
    ELSE IF opcode \in MemOps /\ Len(ops) > 0
    THEN Updated(expand_memory(c, ops[1] + (IF opcode = MSTORE8 THEN 1 ELSE 32)))
    ELSE IF opcode = MCOPY /\ Len(ops) >= 3
    THEN Updated(expand_memory(c, ops[1] + ops[3]))
    ELSE IF opcode \in CopyOps /\ Len(ops) >= 3
    THEN Updated(expand_memory(c, ops[1] + ops[3]))
    ELSE IF opcode \in CallOps /\ Len(ops) >= 2
    THEN Updated(enter_call(mark_address_accessed(c, from_vec_address(to_be_bytes(ops[2])))))
    ELSE Updated(c)

----------------------------------------------------------------------------
(* DynamicGasCalculator::generate_optimizations: the suggestions, one tag  *)
(* per message pushed, in push order.                                      *)

Count(bd, b) == Cardinality({i \in 1..Len(bd) : bd[i][1] = b})

RECURSIVE pattern_optimizations(_, _)
pattern_optimizations(bd, i) ==
    IF i > Len(bd) THEN <<>>
    ELSE LET prev == bd[i - 1][1]
             cur == bd[i][1]
             here == IF prev \in 128..143 /\ cur = 80 THEN <<"dup_pop">>
                     ELSE IF (prev = SLOAD /\ cur = SLOAD) \/ (prev = SSTORE /\ cur = SSTORE)
                     THEN <<"consecutive_storage">>
                     ELSE <<>>
         IN  here \o pattern_optimizations(bd, i + 1)

generate_optimizations(f, bd) ==
    LET sload_count == Count(bd, SLOAD)
        sstore_count == Count(bd, SSTORE)
    IN  (IF sload_count > 3 THEN <<"cache_sload">> ELSE <<>>)
        \o (IF sstore_count > 2 THEN <<"batch_sstore">> ELSE <<>>)
        \o pattern_optimizations(bd, 2)
        \o (IF f >= Shanghai /\ Count(bd, PUSH0) = 0 THEN <<"use_push0">> ELSE <<>>)
        \o (IF f >= Cancun /\ sstore_count > 0 /\ Count(bd, TSTORE) = 0
            THEN <<"use_tstore">> ELSE <<>>)

----------------------------------------------------------------------------
(* Bounds and input sets                                                   *)

\* longest opcode sequence handed to analyze_sequence_gas
MaxLen == 3

\* forks the analysed calculators are bound to
SeqForks == {Istanbul, Berlin, Cancun}

Entry(b, ops) == [opcode |-> b, operands |-> ops]

\* an operation and the arguments no other variable holds
Call(op, args) == [op |-> op, args |-> args]

\* the (opcode, operands) entries sequences are built from
SeqEntries ==
    { Entry(ADD, <<>>),
      Entry(UNASSIGNED, <<>>),
      Entry(SLOAD, <<1>>),
      Entry(SLOAD, <<2>>),
      Entry(SLOAD, <<>>),
      Entry(SSTORE, <<1, 5>>),
      Entry(TLOAD, <<1>>),
      Entry(MSTORE, <<64>>),
      Entry(MCOPY, <<0, 0, 128>>),
      Entry(CALLDATACOPY, <<0, 0, 96>>),
      Entry(CALLDATACOPY, <<51712, 0, 128>>),
      Entry(KECCAK256, <<0, 64>>),
      Entry(LOG1, <<0, 32>>),
      Entry(CREATE, <<0, 0, 100>>),
      Entry(BALANCE, <<7>>),
      Entry(BALANCE, <<7, 9>>),
      Entry(CALL, <<0, 7, 1, 0, 32, 0, 64>>),
      Entry(DELEGATECALL, <<0, 9, 0, 0, 0, 0, 0>>),
      Entry(STATICCALL, <<0, 7, 0, 0, 0, 0, 32>>) }

----------------------------------------------------------------------------
(* analyze_sequence_gas as a state machine: Init is the state before the   *)
(* loop, Step is one iteration of the loop on the next entry, Finish is    *)
(* the code after the loop.                                                *)

Init ==
    /\ fork \in SeqForks
    /\ key_order \in KeyOrders
    /\ input = <<>>
    /\ context = NewContext
    /\ total_gas = 21000
    /\ breakdown = <<>>
    /\ warnings = <<>>
    /\ status = "running"
    /\ outcome = NoOutcome
    /\ q_opcode = 0
    /\ q_operands = <<>>
    /\ call = Call("analyze_sequence_gas", <<>>)

\* Step with update_context called before the entry is charged
Step_side_effects_first(e) ==
    /\ status = "running"
    /\ Len(input) < MaxLen
    /\ input' = Append(input, e)
    /\ LET upd == update_context(context, e.opcode, e.operands)
           gas_cost == calculate_gas_cost(key_order, fork, e.opcode, upd.ctx, e.operands)
       IN  IF ~gas_cost.ok
           THEN /\ status' = "failed"
                /\ outcome' = gas_cost
                /\ UNCHANGED <<context, total_gas, breakdown, warnings>>
           ELSE /\ total_gas' = total_gas + gas_cost.val
                /\ breakdown' = Append(breakdown, <<e.opcode, gas_cost.val>>)
                /\ IF upd.panic
                   THEN /\ status' = "panicked"
                        /\ UNCHANGED <<context, warnings>>
                   ELSE /\ status' = "running"
                        /\ context' = upd.ctx
                        /\ warnings' =
                             IF gas_cost.val > 10000
                             THEN Append(warnings, <<e.opcode, gas_cost.val>>)
                             ELSE warnings
                /\ UNCHANGED outcome
    /\ UNCHANGED <<fork, key_order, q_opcode, q_operands, call>>

\* Step that skips an entry whose cost computation fails and goes on
Step_skips_failed(e) ==
    /\ status = "running"
    /\ Len(input) < MaxLen
    /\ input' = Append(input, e)
    /\ LET gas_cost == calculate_gas_cost(key_order, fork, e.opcode, context, e.operands)
       IN  IF ~gas_cost.ok
           THEN UNCHANGED <<status, outcome, context, total_gas, breakdown, warnings>>
           ELSE LET upd == update_context(context, e.opcode, e.operands)
                IN  /\ total_gas' = total_gas + gas_cost.val
                    /\ breakdown' = Append(breakdown, <<e.opcode, gas_cost.val>>)
                    /\ IF upd.panic
                       THEN /\ status' = "panicked"
                            /\ UNCHANGED <<context, warnings>>
                       ELSE /\ status' = "running"
                            /\ context' = upd.ctx
                            /\ warnings' =
                                 IF gas_cost.val > 10000
                                 THEN Append(warnings, <<e.opcode, gas_cost.val>>)
                                 ELSE warnings
                    /\ UNCHANGED outcome
    /\ UNCHANGED <<fork, key_order, q_opcode, q_operands, call>>

\* Step that also warns about an entry costing exactly 10000
Step_warns_from_10000(e) ==
    /\ status = "running"
    /\ Len(input) < MaxLen
    /\ input' = Append(input, e)
    /\ LET gas_cost == calculate_gas_cost(key_order, fork, e.opcode, context, e.operands)
       IN  IF ~gas_cost.ok
           THEN /\ status' = "failed"
                /\ outcome' = gas_cost
                /\ UNCHANGED <<context, total_gas, breakdown, warnings>>
           ELSE LET upd == update_context(context, e.opcode, e.operands)
                IN  /\ total_gas' = total_gas + gas_cost.val
                    /\ breakdown' = Append(breakdown, <<e.opcode, gas_cost.val>>)
                    /\ IF upd.panic
                       THEN /\ status' = "panicked"
                            /\ UNCHANGED <<context, warnings>>
                       ELSE /\ status' = "running"
                            /\ context' = upd.ctx
                            /\ warnings' =
                                 IF gas_cost.val >= 10000
                                 THEN Append(warnings, <<e.opcode, gas_cost.val>>)
                                 ELSE warnings
                    /\ UNCHANGED outcome
    /\ UNCHANGED <<fork, key_order, q_opcode, q_operands, call>>

Step(e) ==
    /\ status = "running"
    /\ Len(input) < MaxLen
    /\ input' = Append(input, e)
    /\ LET gas_cost == calculate_gas_cost(key_order, fork, e.opcode, context, e.operands)
       IN  IF ~gas_cost.ok
           THEN /\ status' = "failed"
                /\ outcome' = gas_cost
                /\ UNCHANGED <<context, total_gas, breakdown, warnings>>
           ELSE LET upd == update_context(context, e.opcode, e.operands)
                IN  /\ total_gas' = total_gas + gas_cost.val
                    /\ breakdown' = Append(breakdown, <<e.opcode, gas_cost.val>>)
                    /\ IF upd.panic
                       THEN /\ status' = "panicked"
                            /\ UNCHANGED <<context, warnings>>
                       ELSE /\ status' = "running"
                            /\ context' = upd.ctx
                            /\ warnings' =
                                 IF gas_cost.val > 10000
                                 THEN Append(warnings, <<e.opcode, gas_cost.val>>)
                                 ELSE warnings
                    /\ UNCHANGED outcome
    /\ UNCHANGED <<fork, key_order, q_opcode, q_operands, call>>

\* Finish reporting the running total without the base transaction cost
Finish_without_base ==
    /\ status = "running"
    /\ status' = "returned"
    /\ outcome' = Ok([total_gas |-> total_gas - 21000,
                      breakdown |-> breakdown,
                      warnings |-> warnings,
                      context |-> context,
                      optimizations |-> generate_optimizations(fork, breakdown)])
    /\ UNCHANGED <<fork, key_order, input, context, total_gas, breakdown, warnings,
                   q_opcode, q_operands, call>>

Finish ==
    /\ status = "running"
    /\ status' = "returned"
    /\ outcome' = Ok([total_gas |-> total_gas,
                      breakdown |-> breakdown,
                      warnings |-> warnings,
                      context |-> context,
                      optimizations |-> generate_optimizations(fork, breakdown)])
    /\ UNCHANGED <<fork, key_order, input, context, total_gas, breakdown, warnings,
                   q_opcode, q_operands, call>>

Next == (\E e \in SeqEntries : Step(e)) \/ Finish

Spec == Init /\ [][Next]_vars

----------------------------------------------------------------------------
(* Quantities the properties of the sequence analysis are stated with      *)

\* the context a fresh context becomes by the side effects of the entries
\* of sq, applied in order
RECURSIVE ContextAfter(_)
ContextAfter(sq) ==
    IF sq = <<>> THEN NewContext
    ELSE LET last == sq[Len(sq)]
         IN  update_context(ContextAfter(SubSeq(sq, 1, Len(sq) - 1)),
                            last.opcode, last.operands).ctx

\* C_i: the context entry i of the input is charged on
ContextBefore(i) == ContextAfter(SubSeq(input, 1, i - 1))

\* effective base cost of an opcode the bound fork knows
BaseCostOf(b) == get_base_gas_cost(fork, get_opcodes(key_order, fork)[b])

\* dynamic surcharge recorded for entry i: its cost less the base cost
Surcharge(i) == breakdown[i][2] - BaseCostOf(breakdown[i][1])

RECURSIVE SumCosts(_)
SumCosts(bd) == IF bd = <<>> THEN 0 ELSE bd[Len(bd)][2] + SumCosts(SubSeq(bd, 1, Len(bd) - 1))

IsSloadOn(e, key) == e.opcode = SLOAD /\ Len(e.operands) > 0 /\ e.operands[1] = key

----------------------------------------------------------------------------
C2_ChargedBeforeSideEffects ==
    \A i \in 1..Len(breakdown) :
        LET r == calculate_gas_cost(key_order, fork, input[i].opcode,
                                    ContextBefore(i), input[i].operands)
        IN  /\ r.ok
            /\ breakdown[i][2] = r.val
            /\ (status = "running" /\ i = Len(input)) =>
                   context = update_context(ContextBefore(i), input[i].opcode,
                                            input[i].operands).ctx

\* an entry whose own side effect would have changed its price was charged
C2_Witness ==
    /\ status = "running"
    /\ Len(breakdown) = 2
    /\ input[2].opcode = MSTORE
    /\ calculate_gas_cost(key_order, fork, MSTORE, context, input[2].operands).val
         < breakdown[2][2]

\* C3: a successful analysis returns total_gas = 21000 + the sum of the
\* breakdown costs, one breakdown entry per input entry, in input order with
\* the input's opcode bytes; the empty sequence gives 21000 and no entries.
C3_TotalAndBreakdown ==
    status = "returned" =>
        LET res == outcome.val
        IN  /\ outcome.ok
            /\ res.total_gas = 21000 + SumCosts(res.breakdown)
            /\ Len(res.breakdown) = Len(input)
            /\ \A i \in 1..Len(input) : res.breakdown[i][1] = input[i].opcode
            /\ input = <<>> => (res.total_gas = 21000 /\ res.breakdown = <<>>)

C3_Witness ==
    /\ status = "returned"
    /\ Len(input) = 3
    /\ outcome.val.total_gas > 21000 + 2300

\* C4: when the cost computation of entry i fails, the analysis stops at
\* entry i with that error: no result, no later entry charged, and no side
\* effect of entry i on the context.
C4_StopsOnFirstError ==
    /\ status = "failed" =>
          LET i == Len(input)
              r == calculate_gas_cost(key_order, fork, input[i].opcode,
                                      ContextBefore(i), input[i].operands)
          IN  /\ ~r.ok
              /\ outcome = r
              /\ outcome.err \in {UnknownOpcode, UnsupportedOpcode, MissingOperand}
              /\ Len(breakdown) = i - 1
              /\ context = ContextBefore(i)
    /\ status # "failed" =>
          /\ Len(breakdown) = Len(input)
          /\ \A i \in 1..Len(input) :
                calculate_gas_cost(key_order, fork, input[i].opcode,
                                   ContextBefore(i), input[i].operands).ok

\* an entry that would have grown the memory failed after a charged entry
C4_Witness ==
    /\ status = "failed"
    /\ Len(input) = 2
    /\ input[2].opcode = MCOPY
    /\ outcome = Err(UnknownOpcode)

\* number of operands the surcharge formula of an opcode reads (0: none)
OperandsRead(b) ==
    CASE b \in {SLOAD, TLOAD} \cup MemOps \cup AccountOps -> 1
      [] b \in {SSTORE, TSTORE, KECCAK256} \cup LogOps -> 2
      [] b \in {MCOPY} \cup CopyOps \cup CreateOps -> 3
      [] b \in CallOps -> 7
      [] OTHER -> 0

\* last byte (exclusive) of the memory region an entry's charge covers
RegionEnd(b, ops) ==
    CASE b \in MemOps -> ops[1] + (IF b = MSTORE8 THEN 1 ELSE 32)
      [] b \in {MCOPY} \cup CopyOps -> ops[1] + ops[3]
      [] b \in {KECCAK256} \cup LogOps -> ops[1] + ops[2]
      [] b \in CreateOps -> ops[2] + ops[3]
      [] b \in CallOps -> Max(ops[4] + ops[5], ops[6] + ops[7])

ChargesExpansion(e) ==
    /\ e.opcode \in MemOps \cup {MCOPY, KECCAK256} \cup CopyOps \cup LogOps
                    \cup CreateOps \cup CallOps
    /\ Len(e.operands) >= OperandsRead(e.opcode)

AddressOf(v) == from_vec_address(to_be_bytes(v))

\* C5: every charged CALL, CALLCODE, DELEGATECALL or STATICCALL entry
\* increments call_depth by one, so the final context of a sequence with k
\* such entries has call_depth = k.
C5_CallDepthCounts ==
    status = "returned" =>
        outcome.val.context.call_depth
          = Cardinality({i \in 1..Len(input) : input[i].opcode \in CallOps})

\* C6: every entry charged a memory-expansion delta for a region ending at
\* byte N leaves memory_size >= N, so the same entry repeated right after
\* is charged an expansion delta of 0.
C6_MemoryGrows ==
    \A i \in 1..Len(breakdown) :
        ChargesExpansion(input[i]) =>
            LET n == RegionEnd(input[i].opcode, input[i].operands)
            IN  /\ (status = "running" /\ i = Len(input)) => context.memory_size >= n
                /\ (i > 1 /\ input[i - 1] = input[i]) =>
                       expansion_if_larger(ContextBefore(i), n) = 0

\* C7: on a fork >= Berlin an account-access entry is charged the surcharge
\* 2600 when the address of operand 0 is cold and 100 when it is warm, the
\* address of operand 0 is warm after the entry, and two consecutive entries
\* on one address are charged 2600 then 100; before Berlin the surcharge is 0.
C7_AccountAccessWarming ==
    \A i \in 1..Len(breakdown) :
        (input[i].opcode \in AccountOps /\ Len(input[i].operands) > 0) =>
            LET addr == AddressOf(input[i].operands[1])
                cold == ~is_address_warm(ContextBefore(i), addr)
            IN  /\ Surcharge(i) = IF fork >= Berlin THEN (IF cold THEN 2600 ELSE 100) ELSE 0
                /\ (fork >= Berlin /\ i = Len(input)) =>
                       (status # "panicked" /\ is_address_warm(context, addr))
                /\ ( /\ fork >= Berlin
                     /\ i = 2
                     /\ input[1].opcode \in AccountOps
                     /\ Len(input[1].operands) > 0
                     /\ input[1].operands[1] = input[2].operands[1] )
                   => <<Surcharge(1), Surcharge(2)>> = <<2600, 100>>

----------------------------------------------------------------------------
(* A single calculate_gas_cost query: Init draws the calculator, the       *)
(* context and the arguments, Calculate is the call.                       *)

\* most operands a query carries
MaxOperands == 7

\* values the k-th operand of a query is drawn from
OperandValues(k) ==
    CASE k = 1 -> {1, 7}
      [] k = 2 -> {7, 64}
      [] k = 3 -> {0, 100}
      [] k = 4 -> {0, 96}
      [] k = 6 -> {0, 200}
      [] OTHER -> {32}

\* the operand lists of exactly n operands
RECURSIVE OperandListsOfLen(_)
OperandListsOfLen(n) ==
    IF n = 0 THEN {<<>>}
    ELSE {Append(l, v) : l \in OperandListsOfLen(n - 1), v \in OperandValues(n)}

OperandLists == UNION {OperandListsOfLen(n) : n \in 0..MaxOperands}

QueryForks == {Frontier, Istanbul, Berlin, Shanghai, Cancun}

QueryOpcodes == {m.opcode : m \in AllMetadata} \cup {UNASSIGNED}

\* contexts as ExecutionContextBuilder and the mark/expand operations build them
QueryContexts ==
    { [NewContext EXCEPT !.memory_size = m,
                         !.accessed_addresses = a,
                         !.accessed_storage_keys = k]
      : m \in {0, 128},
        a \in {{}, {AddressOf(7)}},
        k \in {{}, {<<Zeros(20), full_key(1)>>}} }

QueryInit ==
    /\ fork \in QueryForks
    /\ key_order \in KeyOrders
    /\ context \in QueryContexts
    /\ q_opcode \in QueryOpcodes
    /\ q_operands \in OperandLists
    /\ status = "query"
    /\ outcome = NoOutcome
    /\ input = <<>>
    /\ total_gas = 0
    /\ breakdown = <<>>
    /\ warnings = <<>>
    /\ call = Call("calculate_gas_cost", <<>>)

Calculate ==
    /\ status = "query"
    /\ outcome' = calculate_gas_cost(key_order, fork, q_opcode, context, q_operands)
    /\ status' = "answered"
    /\ UNCHANGED <<fork, key_order, input, context, total_gas, breakdown, warnings,
                   q_opcode, q_operands, call>>

QueryNext == Calculate

QuerySpec == QueryInit /\ [][QueryNext]_vars

\* the query's opcode is registered for the calculator's fork
QueryActive == is_opcode_available(key_order, fork, q_opcode)

\* surcharge of an answered query: the cost less the effective base cost
QuerySurcharge == outcome.val - BaseCostOf(q_opcode)

\* C8: for every opcode whose surcharge formula reads operands, on every
\* fork where it is active, a query with fewer operands than the formula
\* needs fails with MissingOperand and never returns a cost.
C8_MissingOperand ==
    ( /\ status = "answered"
      /\ QueryActive
      /\ Len(q_operands) < OperandsRead(q_opcode) )
    => outcome = Err(MissingOperand)

\* C9: TLOAD and TSTORE queried on a fork before Cancun fail with
\* UnsupportedOpcode, not UnknownOpcode; on Cancun and later, with their
\* operands, the surcharge is 100 whatever the warm sets hold.
C9_TransientStorage ==
    (status = "answered" /\ q_opcode \in {TLOAD, TSTORE}) =>
        /\ fork < Cancun => outcome = Err(UnsupportedOpcode)
        /\ (fork >= Cancun /\ Len(q_operands) >= OperandsRead(q_opcode)) =>
               (outcome.ok /\ QuerySurcharge = 100)

\* C10: the surcharge of CALL, CALLCODE, DELEGATECALL and STATICCALL with
\* operands (gas, target, value, argsOffset, argsSize, retOffset, retSize) is
\* (2600 if fork >= Berlin and target cold) + (9000 if CALL and value > 0)
\* + (25000 if CALL, value > 0 and target cold) + the expansion delta for
\* max(argsOffset+argsSize, retOffset+retSize); value is ignored otherwise.
C10_CallSurcharge ==
    ( /\ status = "answered"
      /\ q_opcode \in CallOps
      /\ QueryActive
      /\ Len(q_operands) >= 7 )
    => LET cold == AddressOf(q_operands[2]) \notin context.accessed_addresses
           sends == q_opcode = CALL /\ q_operands[3] > 0
           top == Max(q_operands[4] + q_operands[5], q_operands[6] + q_operands[7])
           delta == Max(0, memory_cost(top) - memory_cost(context.memory_size))
       IN  /\ outcome.ok
           /\ QuerySurcharge
                = (IF fork >= Berlin /\ cold THEN 2600 ELSE 0)
                  + (IF sends THEN 9000 ELSE 0)
                  + (IF sends /\ cold THEN 25000 ELSE 0)
                  + delta

\* a value-bearing CALL to a cold target before Berlin, growing the memory
C10_Witness ==
    /\ status = "answered"
    /\ q_opcode = CALL
    /\ fork = Istanbul
    /\ Len(q_operands) = 7
    /\ q_operands[3] > 0
    /\ context.accessed_addresses = {}
    /\ context.memory_size = 128
    /\ QuerySurcharge = 34000 + memory_cost(232) - memory_cost(128)

\* memoryExpansionDelta(old, new) = max(0, cost(new) - cost(old))
ExpansionDelta(old, new) == Max(0, memory_cost(new) - memory_cost(old))

\* ceil(n / 32), computed without div_ceil
CeilWords(n) == IF n % 32 = 0 THEN n \div 32 ELSE n \div 32 + 1

\* C11: the surcharge of CREATE with operands (value, offset, initCodeSize)
\* is 32000 + (2*ceil(initCodeSize/32) if fork >= Shanghai) + the expansion
\* delta from memory_size to offset+initCodeSize; CREATE2 adds
\* 6*ceil(initCodeSize/32).  CREATE of 100 bytes on Shanghai: 32000 + 8 + delta.
C11_CreateSurcharge ==
    ( /\ status = "answered"
      /\ q_opcode \in CreateOps
      /\ QueryActive
      /\ Len(q_operands) >= 3 )
    => LET offset == q_operands[2]
           initCodeSize == q_operands[3]
           words == CeilWords(initCodeSize)
           expected == 32000
                       + (IF fork >= Shanghai THEN 2 * words ELSE 0)
                       + (IF q_opcode = CREATE2 THEN 6 * words ELSE 0)
                       + ExpansionDelta(context.memory_size, offset + initCodeSize)
       IN  /\ outcome.ok
           /\ QuerySurcharge = expected
           /\ (q_opcode = CREATE /\ fork = Shanghai /\ initCodeSize = 100) =>
                  QuerySurcharge
                    = 32000 + 8 + ExpansionDelta(context.memory_size, offset + 100)

\* CREATE of 100 bytes of init code on Shanghai from an empty memory
C11_Witness ==
    /\ status = "answered"
    /\ q_opcode = CREATE
    /\ fork = Shanghai
    /\ Len(q_operands) = 3
    /\ q_operands[3] = 100
    /\ context.memory_size = 0
    /\ QuerySurcharge = 32008 + memory_cost(q_operands[2] + 100)

\* C13: SSTORE with key and value operands has surcharge 2100 exactly when
\* the fork is >= Berlin and the slot (current_address, key) is cold; the
\* surcharge is 0 for a warm slot on Berlin and later, and 0 on every fork
\* below Berlin whatever the context holds.
C13_SstoreSurcharge ==
    ( /\ status = "answered"
      /\ q_opcode = SSTORE
      /\ QueryActive
      /\ Len(q_operands) >= 2 )
    => LET slot == <<context.current_address, full_key(q_operands[1])>>
           cold == slot \notin context.accessed_storage_keys
       IN  /\ outcome.ok
           /\ QuerySurcharge \in {0, 2100}
           /\ QuerySurcharge = 2100 <=> (fork >= Berlin /\ cold)
           /\ fork < Berlin => QuerySurcharge = 0

\* SSTORE to a warm slot on Berlin
C13_Witness ==
    /\ status = "answered"
    /\ q_opcode = SSTORE
    /\ fork = Berlin
    /\ Len(q_operands) = 2
    /\ <<context.current_address, full_key(q_operands[1])>> \in context.accessed_storage_keys
    /\ QuerySurcharge = 0

\* C17: the outcome of calculate_gas_cost is a function of (opcode, context,
\* fork, operands): a second calculator constructed for the same fork, whose
\* registry yields its fork keys in another order, returns the identical
\* cost or the identical error.
C17_Deterministic ==
    status = "answered" =>
        \A keys \in KeyOrders :
            calculate_gas_cost(keys, fork, q_opcode, context, q_operands) = outcome

----------------------------------------------------------------------------
(* calculate_memory_expansion_cost applied to drawn sizes                  *)

\* the variables of the sequence analysis and of the query, unused
NoSequence == input = <<>> /\ total_gas = 0 /\ breakdown = <<>> /\ warnings = <<>>
NoQuery == q_opcode = 0 /\ q_operands = <<>>

\* every size up to MaxMemorySize is drawn
MaxMemorySize == 96

\* sizes past the point where the quadratic term is positive
LargeSizes == {704, 705, 736, 1024, 1000000}

MemorySizes == 0..MaxMemorySize \cup LargeSizes

MemoryInit ==
    /\ call \in {Call("calculate_memory_expansion_cost", <<old_size, new_size>>)
                  : old_size \in MemorySizes, new_size \in MemorySizes}
    /\ status = "called"
    /\ outcome = NoOutcome
    /\ fork = Cancun
    /\ key_order = RegisteredForks
    /\ context = NewContext
    /\ NoSequence
    /\ NoQuery

ExpansionCost ==
    /\ status = "called"
    /\ call.op = "calculate_memory_expansion_cost"
    /\ outcome' = Ok(calculate_memory_expansion_cost(call.args[1], call.args[2]))
    /\ status' = "answered"
    /\ UNCHANGED <<fork, key_order, input, context, total_gas, breakdown, warnings,
                   q_opcode, q_operands, call>>

MemoryNext == ExpansionCost

MemorySpec == MemoryInit /\ [][MemoryNext]_vars

\* cost(size) = 3*words + floor(words^2 / 512), words = ceil(size / 32)
CostOfSize(size) == 3 * CeilWords(size) + (CeilWords(size) * CeilWords(size)) \div 512

\* C12: the expansion charge from old to new is max(0, cost(new) - cost(old))
\* with cost(size) = 3*ceil(size/32) + floor(ceil(size/32)^2 / 512): it is 0
\* when new <= old, never negative, cost(0) = 0, cost(32) = 3 and
\* cost(1000000) = 3*31250 + floor(31250^2 / 512).
C12_MemoryExpansion ==
    (status = "answered" /\ call.op = "calculate_memory_expansion_cost") =>
        LET old_size == call.args[1]
            new_size == call.args[2]
            delta == outcome.val
        IN  /\ delta = Max(0, CostOfSize(new_size) - CostOfSize(old_size))
            /\ new_size <= old_size => delta = 0
            /\ delta >= 0
            /\ old_size = 0 => delta = CostOfSize(new_size)
            /\ (old_size = 0 /\ new_size = 32) => delta = 3
            /\ (old_size = 0 /\ new_size = 1000000) => delta = 3 * 31250 + 976562500 \div 512

\* growth from one word to 1,000,000 bytes: the quadratic term dominates
C12_Witness ==
    /\ status = "answered"
    /\ call = Call("calculate_memory_expansion_cost", <<32, 1000000>>)
    /\ outcome = Ok(2001098 - 3)

----------------------------------------------------------------------------
(* The effective base cost: DynamicGasCalculator::get_base_gas_cost and    *)
(* OpCode::gas_cost applied to drawn metadata records and target forks.    *)

\* longest gas_history of a drawn record
MaxHistory == 2

HistoryForks == {Frontier, TangerineWhistle, Berlin}
HistoryCosts == {50, 800, 2100}

\* the gas histories of n entries, sorted ascending by fork
RECURSIVE Histories(_)
Histories(n) ==
    IF n = 0 THEN {<<>>}
    ELSE UNION { {Append(h, <<f, c>>)
                    : f \in {g \in HistoryForks : h = <<>> \/ h[Len(h)][1] < g},
                      c \in HistoryCosts}
                 : h \in Histories(n - 1) }

\* records a metadata provider may hold: those of the fork tables, and
\* records of one opcode under every bounded history
ProviderRecords ==
    UNION { {RegistryOpcodes[f][b] : b \in DOMAIN RegistryOpcodes[f]}
            : f \in DOMAIN RegistryOpcodes }
    \cup { Meta(SLOAD, Frontier, gas, h)
           : gas \in {3, 50}, h \in UNION {Histories(n) : n \in 0..MaxHistory} }

\* the forks an opcode type exists for
ForkTypes == {RegisteredForks[i] : i \in 1..Len(RegisteredForks)}

BaseCostInit ==
    /\ fork \in AllForks
    /\ call \in {Call(op, <<metadata>>)
                  : op \in {"get_base_gas_cost", "OpCode::gas_cost"},
                    metadata \in ProviderRecords}
    /\ call.op = "OpCode::gas_cost" => fork \in ForkTypes
    /\ status = "called"
    /\ outcome = NoOutcome
    /\ key_order = RegisteredForks
    /\ context = NewContext
    /\ NoSequence
    /\ NoQuery

\* the calculator bound to `fork` resolves the base cost of the record
GetBaseGasCost ==
    /\ status = "called"
    /\ call.op = "get_base_gas_cost"
    /\ outcome' = Ok(get_base_gas_cost(fork, call.args[1]))
    /\ status' = "answered"
    /\ UNCHANGED <<fork, key_order, input, context, total_gas, breakdown, warnings,
                   q_opcode, q_operands, call>>

\* an opcode of the fork type `fork` reports its gas cost
OpCodeGasCost ==
    /\ status = "called"
    /\ call.op = "OpCode::gas_cost"
    /\ outcome' = Ok(OpCode_gas_cost(fork, call.args[1]))
    /\ status' = "answered"
    /\ UNCHANGED <<fork, key_order, input, context, total_gas, breakdown, warnings,
                   q_opcode, q_operands, call>>

BaseCostNext == GetBaseGasCost \/ OpCodeGasCost

BaseCostSpec == BaseCostInit /\ [][BaseCostNext]_vars

\* the cost of the last history entry whose fork is <= f, the record's
\* gas_cost when no entry qualifies
LastQualifying(metadata, f) ==
    LET hist == metadata.gas_history
        qualifying == {i \in 1..Len(hist) : hist[i][1] <= f}
    IN  IF qualifying = {} THEN metadata.gas_cost
        ELSE hist[CHOOSE i \in qualifying : \A j \in qualifying : j <= i][2]

\* C14: the effective base cost of a record at a target fork is the cost of
\* the last gas_history entry whose fork is <= the target, and the record's
\* gas_cost when none qualifies; get_base_gas_cost and OpCode::gas_cost both
\* return this value.
C14_EffectiveBaseCost ==
    (status = "answered" /\ call.op \in {"get_base_gas_cost", "OpCode::gas_cost"}) =>
        LET metadata == call.args[1]
        IN  /\ outcome = Ok(LastQualifying(metadata, fork))
            /\ get_base_gas_cost(fork, metadata) = OpCode_gas_cost(fork, metadata)

\* a history whose last entry is later than the target fork
C14_Witness ==
    /\ status = "answered"
    /\ call.op = "get_base_gas_cost"
    /\ fork = Istanbul
    /\ call.args[1].gas_history = <<<<Frontier, 50>>, <<Berlin, 2100>>>>
    /\ outcome = Ok(50)

----------------------------------------------------------------------------
(* OpcodeRegistry queries: get_opcodes and is_opcode_available on a        *)
(* registry whose HashMap yields its keys in the order key_order.          *)

RegistryBytes == {m.opcode : m \in AllMetadata} \cup {UNASSIGNED}

RegistryInit ==
    /\ fork \in AllForks
    /\ key_order \in KeyOrders
    /\ call \in {Call("get_opcodes", <<>>)}
                \cup {Call("is_opcode_available", <<b>>) : b \in RegistryBytes}
    /\ status = "called"
    /\ outcome = NoOutcome
    /\ context = NewContext
    /\ NoSequence
    /\ NoQuery

GetOpcodes ==
    /\ status = "called"
    /\ call.op = "get_opcodes"
    /\ outcome' = Ok(get_opcodes(key_order, fork))
    /\ status' = "answered"
    /\ UNCHANGED <<fork, key_order, input, context, total_gas, breakdown, warnings,
                   q_opcode, q_operands, call>>

IsOpcodeAvailable ==
    /\ status = "called"
    /\ call.op = "is_opcode_available"
    /\ outcome' = Ok(is_opcode_available(key_order, fork, call.args[1]))
    /\ status' = "answered"
    /\ UNCHANGED <<fork, key_order, input, context, total_gas, breakdown, warnings,
                   q_opcode, q_operands, call>>

RegistryNext == GetOpcodes \/ IsOpcodeAvailable

RegistrySpec == RegistryInit /\ [][RegistryNext]_vars

\* the registered forks <= f whose own table defines byte b
DefiningForks(f, b) == {g \in ForkTypes : g <= f /\ b \in DOMAIN RegistryOpcodes[g]}

LatestOf(forks) == CHOOSE g \in forks : \A h \in forks : h <= g

\* C15: get_opcodes(F) is the union of the own tables of the registered
\* forks <= F merged in ascending fork order: its keys are the bytes some
\* registered fork <= F defines, and the record kept for a byte is that of
\* the latest registered fork <= F defining it.
C15_GetOpcodesUnion ==
    (status = "answered" /\ call.op = "get_opcodes") =>
        LET result == outcome.val
        IN  /\ DOMAIN result = {b \in RegistryBytes : DefiningForks(fork, b) # {}}
            /\ \A b \in DOMAIN result :
                   result[b] = RegistryOpcodes[LatestOf(DefiningForks(fork, b))][b]

\* C16: a byte available at fork F is available at every fork F' >= F of
\* the timeline, the forks without an own table included.
C16_AvailabilityMonotone ==
    (status = "answered" /\ call.op = "is_opcode_available" /\ outcome = Ok(TRUE)) =>
        \A later \in AllForks :
            later >= fork =>
                \A keys \in KeyOrders : is_opcode_available(keys, later, call.args[1])

\* DELEGATECALL is available from Homestead, two forks before the next
\* registered table
C16_Witness ==
    /\ status = "answered"
    /\ call = Call("is_opcode_available", <<DELEGATECALL>>)
    /\ fork = DaoFork
    /\ outcome = Ok(TRUE)
    /\ ~is_opcode_available(key_order, Frontier, DELEGATECALL)

----------------------------------------------------------------------------
(* An ExecutionContext driven through its public operations: Init is       *)
(* ExecutionContext::new(), each action is one method call, recorded in    *)
(* `call`; `outcome` is the value the call returned.                       *)

\* deepest call frame entered
MaxCallDepth == 2

CtxAddresses == {Zeros(20), AddressOf(7)}
CtxKeys == {full_key(1), full_key(2)}
CtxSizes == {0, 32, 64, 96}
GasAmounts == {0, 300000, 400000, 700000}

ContextInit ==
    /\ context = NewContext
    /\ call = Call("new", <<>>)
    /\ outcome = Ok(<<>>)
    /\ status = "context"
    /\ fork = Cancun
    /\ key_order = RegisteredForks
    /\ NoSequence
    /\ NoQuery

\* what no method of the context touches
ContextFrame ==
    UNCHANGED <<fork, key_order, input, total_gas, breakdown, warnings, status,
                q_opcode, q_operands>>

MarkStorageAccessed(address, key) ==
    /\ status = "context"
    /\ context' = mark_storage_accessed(context, address, key)
    /\ call' = Call("mark_storage_accessed", <<address, key>>)
    /\ outcome' = Ok(<<>>)
    /\ ContextFrame

MarkAddressAccessed(address) ==
    /\ status = "context"
    /\ context' = mark_address_accessed(context, address)
    /\ call' = Call("mark_address_accessed", <<address>>)
    /\ outcome' = Ok(<<>>)
    /\ ContextFrame

ExpandMemory(new_size) ==
    /\ status = "context"
    /\ context' = expand_memory(context, new_size)
    /\ call' = Call("expand_memory", <<new_size>>)
    /\ outcome' = Ok(<<>>)
    /\ ContextFrame

EnterCall ==
    /\ status = "context"
    /\ context.call_depth < MaxCallDepth
    /\ context' = enter_call(context)
    /\ call' = Call("enter_call", <<>>)
    /\ outcome' = Ok(<<>>)
    /\ ContextFrame

ExitCall ==
    /\ status = "context"
    /\ context' = exit_call(context)
    /\ call' = Call("exit_call", <<>>)
    /\ outcome' = Ok(<<>>)
    /\ ContextFrame

SetStatic(is_static) ==
    /\ status = "context"
    /\ context' = set_static(context, is_static)
    /\ call' = Call("set_static", <<is_static>>)
    /\ outcome' = Ok(<<>>)
    /\ ContextFrame

ConsumeGas(amount) ==
    /\ status = "context"
    /\ LET r == consume_gas(context, amount)
       IN  /\ context' = r.ctx
           /\ outcome' = r.result
    /\ call' = Call("consume_gas", <<amount>>)
    /\ ContextFrame

ResetForNewTransaction ==
    /\ status = "context"
    /\ context' = reset_for_new_transaction(context)
    /\ call' = Call("reset_for_new_transaction", <<>>)
    /\ outcome' = Ok(<<>>)
    /\ ContextFrame

ContextNext ==
    \/ \E address \in CtxAddresses, key \in CtxKeys : MarkStorageAccessed(address, key)
    \/ \E address \in CtxAddresses : MarkAddressAccessed(address)
    \/ \E new_size \in CtxSizes : ExpandMemory(new_size)
    \/ EnterCall
    \/ ExitCall
    \/ \E is_static \in BOOLEAN : SetStatic(is_static)
    \/ \E amount \in GasAmounts : ConsumeGas(amount)
    \/ ResetForNewTransaction

ContextSpec == ContextInit /\ [][ContextNext]_vars

\* the storage slots the operations are drawn over
CtxSlots == CtxAddresses \X CtxKeys

\* C18: a slot is cold in a new context and becomes warm only by
\* mark_storage_accessed on that very (address, key); once warm it stays
\* warm through every operation other than reset_for_new_transaction;
\* marking a warm slot leaves the context unchanged.
C18_StorageWarming ==
    /\ \A s \in CtxSlots : ~is_storage_warm(context, s[1], s[2])
    /\ [][ \A s \in CtxSlots :
             LET marked == call'.op = "mark_storage_accessed" /\ call'.args = s
                 warm_before == is_storage_warm(context, s[1], s[2])
                 warm_after == is_storage_warm(context', s[1], s[2])
             IN  /\ (~warm_before /\ warm_after) => marked
                 /\ marked => warm_after
                 /\ (marked /\ warm_before) => context' = context
                 /\ (warm_before /\ call'.op # "reset_for_new_transaction") => warm_after
          ]_vars

\* a slot marked earlier is still warm, and another slot still cold, after
\* later operations
C18_Witness ==
    /\ status = "context"
    /\ call.op = "exit_call"
    /\ context.memory_size = 64
    /\ is_storage_warm(context, Zeros(20), full_key(1))
    /\ ~is_storage_warm(context, Zeros(20), full_key(2))
    /\ ~is_storage_warm(context, AddressOf(7), full_key(1))

\* C19: expand_memory(n) sets memory_size to max(memory_size, n) and changes
\* no other field; a second call with the same n changes nothing.
C19_ExpandMemoryIdempotent ==
    [][ call'.op = "expand_memory" =>
            LET n == call'.args[1]
            IN  /\ context' = [context EXCEPT !.memory_size = Max(@, n)]
                /\ (call.op = "expand_memory" /\ call.args = call'.args) =>
                       context' = context
      ]_vars

\* expand_memory(32) called on a context of 96 bytes with a warm slot
C19_Witness ==
    /\ status = "context"
    /\ call = Call("expand_memory", <<32>>)
    /\ context.memory_size = 96
    /\ context.accessed_storage_keys # {}

\* C20: no public operation of the context, reset_for_new_transaction
\* included, makes memory_size smaller than it was before the call.
C20_MemoryMonotone ==
    [][context'.memory_size >= context.memory_size]_vars

\* C20 as amended: no public operation other than
\* reset_for_new_transaction makes memory_size smaller;
\* reset_for_new_transaction sets it to 0.
C20_MemoryMonotoneUntilReset ==
    [][ /\ call'.op # "reset_for_new_transaction" =>
              context'.memory_size >= context.memory_size
        /\ call'.op = "reset_for_new_transaction" => context'.memory_size = 0
      ]_vars

\* the memory grown earlier is kept through calls that are not expand_memory
C20_Witness ==
    /\ status = "context"
    /\ call = Call("consume_gas", <<400000>>)
    /\ context.memory_size = 96
    /\ context.call_depth = 1

----------------------------------------------------------------------------
(* The call-depth counter: enter_call and exit_call alone, from            *)
(* ExecutionContext::new() up to the largest value a u8 holds.             *)

\* u8::MAX
U8Max == 255

CallDepthInit ==
    /\ context = NewContext
    /\ call = Call("new", <<>>)
    /\ outcome = Ok(<<>>)
    /\ status = "depth"
    /\ fork = Cancun
    /\ key_order = RegisteredForks
    /\ NoSequence
    /\ NoQuery

\* enter_call: `self.call_depth += 1` on a u8.  At 255 the addition
\* overflows: a build with overflow checks panics, a build without them
\* wraps to 0.
EnterCallFrame ==
    /\ status = "depth"
    /\ call' = Call("enter_call", <<>>)
    /\ IF context.call_depth = U8Max
       THEN \/ /\ status' = "panicked"
               /\ UNCHANGED <<context, outcome>>
            \/ /\ context' = enter_call(context)
               /\ outcome' = Ok(<<>>)
               /\ UNCHANGED status
       ELSE /\ context' = enter_call(context)
            /\ outcome' = Ok(<<>>)
            /\ UNCHANGED status
    /\ UNCHANGED <<fork, key_order, input, total_gas, breakdown, warnings,
                   q_opcode, q_operands>>

ExitCallFrame ==
    /\ status = "depth"
    /\ context' = exit_call(context)
    /\ call' = Call("exit_call", <<>>)
    /\ outcome' = Ok(<<>>)
    /\ ContextFrame

CallDepthNext == EnterCallFrame \/ ExitCallFrame

CallDepthSpec == CallDepthInit /\ [][CallDepthNext]_vars

\* C21: call_depth saturates with floor 0: exit_call at depth 0 leaves 0,
\* enter_call at depth 255 leaves 255, and neither call wraps around or
\* fails.
C21_SaturatingDepth ==
    [][ /\ status' # "panicked"
        /\ (call'.op = "exit_call" /\ context.call_depth = 0) =>
               context'.call_depth = 0
        /\ (call'.op = "enter_call" /\ context.call_depth = U8Max) =>
               context'.call_depth = U8Max
        /\ (call'.op = "enter_call" /\ context.call_depth < U8Max) =>
               context'.call_depth = context.call_depth + 1
        /\ (call'.op = "exit_call" /\ context.call_depth > 0) =>
               context'.call_depth = context.call_depth - 1
      ]_vars

\* C22: consume_gas(amount) fails with the out-of-gas error exactly when
\* amount > gas_remaining and then changes no field of the context;
\* otherwise it succeeds and gas_remaining decreases by exactly amount, so
\* gas_remaining never goes below 0.
C22_ConsumeGas ==
    [][ call'.op = "consume_gas" =>
            LET amount == call'.args[1]
            IN  /\ (outcome' = Err(OutOfGas)) <=> (amount > context.gas_remaining)
                /\ outcome' = Err(OutOfGas) => context' = context
                /\ outcome' # Err(OutOfGas) =>
                       /\ outcome' = Ok(<<>>)
                       /\ context' = [context EXCEPT !.gas_remaining = @ - amount]
                /\ context'.gas_remaining >= 0
      ]_vars

\* the remaining gas was consumed to exactly 0 and a further amount refused
C22_Witness ==
    /\ status = "context"
    /\ call = Call("consume_gas", <<300000>>)
    /\ outcome = Err(OutOfGas)
    /\ context.gas_remaining = 0

----------------------------------------------------------------------------
\* the entries of a breakdown that cost more than 10,000, in order
HighCostEntries(bd) == SelectSeq(bd, LAMBDA e : e[2] > 10000)

\* C23: a successful analysis holds one warning per breakdown entry whose
\* cost is strictly greater than 10,000, in breakdown order, and none for
\* any other entry; an entry costing exactly 10,000 produces none.
C23_WarningsAboveThreshold ==
    status = "returned" =>
        LET res == outcome.val
        IN  /\ Len(res.warnings) = Len(HighCostEntries(res.breakdown))
            /\ res.warnings = HighCostEntries(res.breakdown)
            /\ \A i \in 1..Len(res.breakdown) :
                   res.breakdown[i][2] = 10000 =>
                       \A w \in 1..Len(res.warnings) : res.warnings[w] # res.breakdown[i]

\* an entry costing exactly 10,000 between two entries that are warned about
C23_Witness ==
    /\ status = "returned"
    /\ Len(outcome.val.breakdown) = 3
    /\ outcome.val.breakdown[1][2] > 10000
    /\ outcome.val.breakdown[2][2] = 10000
    /\ outcome.val.breakdown[3][2] > 10000
    /\ Len(outcome.val.warnings) = 2

\* C24: the analysis of a finite sequence handles each entry at most once
\* and ends by returning a GasAnalysisResult or an error value, whatever the
\* opcode bytes and however many operands the entries carry: the loop never
\* ends any other way.
C24_AlwaysReturns ==
    /\ status \in {"running", "returned", "failed"}
    /\ Len(breakdown) <= Len(input)
    /\ status = "returned" => (outcome.ok /\ Len(outcome.val.breakdown) = Len(input))
    /\ status = "failed" => ~outcome.ok

----------------------------------------------------------------------------
(* GasComparator::compare_gas_costs on a registry built by                 *)
(* OpcodeRegistry::new(), whose HashMap yields its keys in key_order.      *)

\* Option<T>
Some(v) == [some |-> TRUE, val |-> v]
None == [some |-> FALSE]

compare_gas_costs(keys, opcode, fork1, fork2) ==
    LET opcodes1 == get_opcodes(keys, fork1)
        opcodes2 == get_opcodes(keys, fork2)
    IN  IF opcode \in DOMAIN opcodes1 /\ opcode \in DOMAIN opcodes2
        THEN Some(<<opcodes1[opcode].gas_cost, opcodes2[opcode].gas_cost>>)
        ELSE None

ComparatorInit ==
    /\ key_order \in KeyOrders
    /\ call \in {Call("compare_gas_costs", <<opcode, fork1, fork2>>)
                  : opcode \in RegistryBytes, fork1 \in AllForks, fork2 \in AllForks}
    /\ status = "called"
    /\ outcome = NoOutcome
    /\ fork = Cancun
    /\ context = NewContext
    /\ NoSequence
    /\ NoQuery

CompareGasCosts ==
    /\ status = "called"
    /\ call.op = "compare_gas_costs"
    /\ outcome' = compare_gas_costs(key_order, call.args[1], call.args[2], call.args[3])
    /\ status' = "answered"
    /\ UNCHANGED <<fork, key_order, input, context, total_gas, breakdown, warnings,
                   q_opcode, q_operands, call>>

ComparatorNext == CompareGasCosts

ComparatorSpec == ComparatorInit /\ [][ComparatorNext]_vars

\* the effective cost of byte b at fork f: the gas_history-resolved cost of
\* the record the latest registered fork <= f holds for b
EffectiveCostAt(f, b) ==
    LastQualifying(RegistryOpcodes[LatestOf(DefiningForks(f, b))][b], f)

\* C25: compare_gas_costs(opcode, fork1, fork2) returns the pair of the
\* opcode's effective costs at fork1 and at fork2 when the opcode is
\* available at both forks, and None when it is missing from either.
C25_ComparesEffectiveCosts ==
    (status = "answered" /\ call.op = "compare_gas_costs") =>
        LET b == call.args[1]
            fork1 == call.args[2]
            fork2 == call.args[3]
        IN  IF DefiningForks(fork1, b) # {} /\ DefiningForks(fork2, b) # {}
            THEN outcome = Some(<<EffectiveCostAt(fork1, b), EffectiveCostAt(fork2, b)>>)
            ELSE outcome = None

----------------------------------------------------------------------------
(* GasAnalyzer::analyze_gas_usage (OpcodeRegistry::analyze_gas_usage): the *)
(* bytes are given estimated operands and handed to analyze_sequence_gas,  *)
(* whose loop is Step; AnalysisOk and AnalysisFallback are the two arms of *)
(* the match on its result.                                                *)

\* GasAnalyzer::estimate_operands
estimate_operands(opcode) ==
    CASE opcode = SLOAD -> <<0>>
      [] opcode = SSTORE -> <<0, 1>>
      [] opcode = TLOAD -> <<0>>
      [] opcode = TSTORE -> <<0, 1>>
      [] opcode \in MemOps -> <<64>>
      [] opcode = MCOPY -> <<64, 128, 32>>
      [] opcode \in CallOps -> <<100000, 291, 0, 0, 0, 0, 0>>
      [] opcode \in AccountOps -> <<291>>
      [] opcode \in CopyOps -> <<64, 0, 32>>
      [] opcode \in CreateOps -> <<0, 64, 256>>
      [] opcode = KECCAK256 -> <<64, 32>>
      [] opcode \in LogOps -> <<64, 32>>
      [] OTHER -> <<>>

\* u16::MAX
U16Max == 65535

Min(a, b) == IF a <= b THEN a ELSE b

\* the Err arm's loop: the bytes the registry knows, with the raw gas_cost
\* of their records; the other bytes are passed over
RECURSIVE fallback_breakdown(_, _)
fallback_breakdown(opcodes_map, bytes) ==
    IF bytes = <<>> THEN <<>>
    ELSE (IF Head(bytes) \in DOMAIN opcodes_map
          THEN <<<<Head(bytes), opcodes_map[Head(bytes)].gas_cost>>>>
          ELSE <<>>)
         \o fallback_breakdown(opcodes_map, Tail(bytes))

\* the byte sequences handed to analyze_gas_usage
AnalyzerBytes == {ADD, UNASSIGNED, SLOAD, MSTORE, TLOAD, BALANCE, CREATE}

AnalyzerSequences ==
    UNION {[1..n -> AnalyzerBytes] : n \in 0..MaxLen}

AnalyzerForks == {Frontier, Berlin, London, Cancun}

AnalyzerInit ==
    /\ fork \in AnalyzerForks
    /\ key_order \in KeyOrders
    /\ call \in {Call("analyze_gas_usage", <<opcodes>>) : opcodes \in AnalyzerSequences}
    /\ input = <<>>
    /\ context = NewContext
    /\ total_gas = 21000
    /\ breakdown = <<>>
    /\ warnings = <<>>
    /\ status = "running"
    /\ outcome = NoOutcome
    /\ NoQuery

\* one iteration of the loop of analyze_sequence_gas on the next byte
AnalysisStep ==
    /\ Len(input) < Len(call.args[1])
    /\ LET opcode == call.args[1][Len(input) + 1]
       IN  Step(Entry(opcode, estimate_operands(opcode)))

\* Ok(result) arm: the breakdown costs are clamped into u16
AnalysisOk ==
    /\ status = "running"
    /\ Len(input) = Len(call.args[1])
    /\ outcome' = Ok([total_gas |-> total_gas,
                      breakdown |-> [i \in 1..Len(breakdown) |->
                                        <<breakdown[i][1], Min(breakdown[i][2], U16Max)>>],
                      optimizations |-> generate_optimizations(fork, breakdown),
                      warnings |-> warnings])
    /\ status' = "analysed"
    /\ UNCHANGED <<fork, key_order, input, context, total_gas, breakdown, warnings,
                   q_opcode, q_operands, call>>

\* Err(e) arm: a GasAnalysis::new() with the failure as a warning and the
\* raw gas_cost of every byte a newly built registry knows
AnalysisFallback ==
    /\ status = "failed"
    /\ \E keys \in KeyOrders :
          LET bd == fallback_breakdown(get_opcodes(keys, fork), call.args[1])
          IN  outcome' = Ok([total_gas |-> 21000 + SumCosts(bd),
                             breakdown |-> bd,
                             optimizations |-> <<>>,
                             warnings |-> <<outcome.err>>])
    /\ status' = "analysed"
    /\ UNCHANGED <<fork, key_order, input, context, total_gas, breakdown, warnings,
                   q_opcode, q_operands, call>>

AnalyzerNext == AnalysisStep \/ AnalysisOk \/ AnalysisFallback

AnalyzerSpec == AnalyzerInit /\ [][AnalyzerNext]_vars

\* C26: for every byte sequence and fork, analyze_gas_usage returns an
\* analysis with total_gas >= 21000 and exactly one breakdown entry per input
\* byte, in input order; no byte is passed over and no partial result is
\* returned.
C26_OneEntryPerByte ==
    /\ status # "panicked"
    /\ status = "analysed" =>
          LET analysis == outcome.val
              opcodes == call.args[1]
          IN  /\ analysis.total_gas >= 21000
              /\ Len(analysis.breakdown) = Len(opcodes)
              /\ \A i \in 1..Len(opcodes) : analysis.breakdown[i][1] = opcodes[i]

----------------------------------------------------------------------------
(* efficiency_score of GasAnalysisResult (gas.rs) and of GasAnalysis       *)
(* (analysis.rs), applied to drawn total_gas and breakdown fields.         *)

\* the `match avg_gas_per_opcode` both functions end with
score_band(avg_gas_per_opcode) ==
    CASE avg_gas_per_opcode <= 10 -> 100
      [] avg_gas_per_opcode \in 11..50 -> 80
      [] avg_gas_per_opcode \in 51..200 -> 60
      [] avg_gas_per_opcode \in 201..1000 -> 40
      [] avg_gas_per_opcode \in 1001..5000 -> 20
      [] OTHER -> 0

\* GasAnalysisResult::efficiency_score
GasAnalysisResult_efficiency_score(total, bd) ==
    LET avg_gas_per_opcode == IF bd # <<>> THEN total \div Len(bd) ELSE 0
    IN  score_band(avg_gas_per_opcode)

\* GasAnalysis::efficiency_score
GasAnalysis_efficiency_score(total, bd) ==
    IF bd = <<>> THEN 0
    ELSE LET opcode_gas == IF total >= 21000 THEN total - 21000 ELSE total
             avg_gas_per_opcode == opcode_gas \div Len(bd)
         IN  score_band(avg_gas_per_opcode)

\* per-opcode costs of the drawn breakdowns
ScoreCosts == {3, 10, 11, 200, 6000}

ScoreBreakdowns ==
    UNION {[1..n -> {<<ADD, c>> : c \in ScoreCosts}] : n \in 0..MaxLen}

EfficiencyInit ==
    /\ breakdown \in ScoreBreakdowns
    /\ total_gas \in {21000 + SumCosts(breakdown), 21030, 30}
    /\ call \in {Call("GasAnalysisResult::efficiency_score", <<>>),
                 Call("GasAnalysis::efficiency_score", <<>>)}
    /\ status = "called"
    /\ outcome = NoOutcome
    /\ fork = Cancun
    /\ key_order = RegisteredForks
    /\ context = NewContext
    /\ input = <<>>
    /\ warnings = <<>>
    /\ NoQuery

ResultEfficiencyScore ==
    /\ status = "called"
    /\ call.op = "GasAnalysisResult::efficiency_score"
    /\ outcome' = Ok(GasAnalysisResult_efficiency_score(total_gas, breakdown))
    /\ status' = "answered"
    /\ UNCHANGED <<fork, key_order, input, context, total_gas, breakdown, warnings,
                   q_opcode, q_operands, call>>

AnalysisEfficiencyScore ==
    /\ status = "called"
    /\ call.op = "GasAnalysis::efficiency_score"
    /\ outcome' = Ok(GasAnalysis_efficiency_score(total_gas, breakdown))
    /\ status' = "answered"
    /\ UNCHANGED <<fork, key_order, input, context, total_gas, breakdown, warnings,
                   q_opcode, q_operands, call>>

EfficiencyNext == ResultEfficiencyScore \/ AnalysisEfficiencyScore

EfficiencySpec == EfficiencyInit /\ [][EfficiencyNext]_vars

\* C27: GasAnalysisResult::efficiency_score is more than 80 whenever
\* total_gas = 21000 + the sum of the breakdown costs and the average cost
\* per opcode is at most 10 (and for total_gas 21030 with three 3-gas
\* opcodes), and it equals GasAnalysis::efficiency_score on the same
\* total_gas and breakdown.
C27_EfficiencyScore ==
    (status = "answered" /\ call.op = "GasAnalysisResult::efficiency_score") =>
        /\ ( /\ breakdown # <<>>
             /\ total_gas = 21000 + SumCosts(breakdown)
             /\ SumCosts(breakdown) <= 10 * Len(breakdown) )
           => outcome.val > 80
        /\ (total_gas = 21030 /\ breakdown = <<<<ADD, 3>>, <<ADD, 3>>, <<ADD, 3>>>>)
           => outcome.val > 80
        /\ outcome.val = GasAnalysis_efficiency_score(total_gas, breakdown)

----------------------------------------------------------------------------
\* c2 differs from c1 only by warm sets that include those of c1 and a
\* memory_size at least as large
WarmerOrLarger(c1, c2) ==
    /\ c1.accessed_storage_keys \subseteq c2.accessed_storage_keys
    /\ c1.accessed_addresses \subseteq c2.accessed_addresses
    /\ c1.memory_size <= c2.memory_size
    /\ c2 = [c1 EXCEPT !.accessed_storage_keys = c2.accessed_storage_keys,
                       !.accessed_addresses = c2.accessed_addresses,
                       !.memory_size = c2.memory_size]

\* C28: calculate_gas_cost is monotone in the context: when the call
\* succeeds on a context it succeeds, with a cost that is not higher, on
\* every context that differs only by larger warm sets and a memory_size at
\* least as large.
C28_MonotoneInContext ==
    (status = "answered" /\ outcome.ok) =>
        \A c2 \in QueryContexts :
            WarmerOrLarger(context, c2) =>
                LET r == calculate_gas_cost(key_order, fork, q_opcode, c2, q_operands)
                IN  r.ok /\ r.val <= outcome.val

\* a value-bearing CALL growing the memory, priced on the fresh context: the
\* context with the target warm and 128 bytes of memory is strictly cheaper
C28_Witness ==
    /\ status = "answered"
    /\ outcome.ok
    /\ q_opcode = CALL
    /\ fork = Berlin
    /\ Len(q_operands) = 7
    /\ q_operands[3] > 0
    /\ context = NewContext
    /\ \E c2 \in QueryContexts :
          /\ WarmerOrLarger(context, c2)
          /\ c2.memory_size = 128
          /\ calculate_gas_cost(key_order, fork, q_opcode, c2, q_operands).val
               < outcome.val - 27600

----------------------------------------------------------------------------
\* contexts that agree with c on memory_size, the warm sets and
\* current_address and differ in one or in all of the other fields
OtherFieldVariants(c) ==
    { [c EXCEPT !.is_static = TRUE],
      [c EXCEPT !.call_depth = 5],
      [c EXCEPT !.gas_remaining = 0],
      [c EXCEPT !.gas_price = 1],
      [c EXCEPT !.gas_limit = 1],
      [c EXCEPT !.caller_address = AddressOf(7)],
      [c EXCEPT !.call_value = 1],
      [c EXCEPT !.is_static = TRUE, !.call_depth = 255, !.gas_remaining = 0,
                !.gas_price = 1, !.gas_limit = 1,
                !.caller_address = AddressOf(7), !.call_value = 1] }

\* C29: calculate_gas_cost reads the context only through memory_size, the
\* warm sets and current_address: a context differing in is_static,
\* call_depth, gas_remaining, gas_price, gas_limit, caller_address or
\* call_value gives the same cost or the same error, and the call leaves
\* the context unchanged.
C29_OnlyPricingFields ==
    [][ status' = "answered" =>
            /\ context' = context
            /\ \A c2 \in OtherFieldVariants(context) :
                   calculate_gas_cost(key_order, fork, q_opcode, c2, q_operands) = outcome'
      ]_vars

\* a LOG priced on a context whose static-call, depth and gas fields were
\* all different
C29_Witness ==
    /\ status = "answered"
    /\ q_opcode \in LogOps
    /\ Len(q_operands) = 2
    /\ outcome.ok
    /\ context.memory_size = 128
    /\ \E c2 \in OtherFieldVariants(context) :
          /\ c2.is_static
          /\ c2.gas_remaining = 0
          /\ calculate_gas_cost(key_order, fork, q_opcode, c2, q_operands) = outcome

----------------------------------------------------------------------------
(* 64-bit arithmetic.  A natural number of any size is the sequence of its *)
(* base-256 digits, least significant first, without high zero digits; a   *)
(* u64 (and a usize of a 64-bit target) holds the numbers of at most 8     *)
(* digits.  `+`, `-` and `*` of the source overflow past that: a build     *)
(* with overflow checks panics, a build without them keeps the low 64      *)
(* bits.  A computed value is the wrapped number with the flag `ovf`       *)
(* telling whether any step overflowed.                                    *)

Digit(a, i) == IF i <= Len(a) THEN a[i] ELSE 0

RECURSIVE Normalize(_)
Normalize(a) ==
    IF a # <<>> /\ a[Len(a)] = 0 THEN Normalize(SubSeq(a, 1, Len(a) - 1)) ELSE a

\* the digits of a number small enough to be written directly
RECURSIVE Big(_)
Big(n) == IF n = 0 THEN <<>> ELSE <<n % 256>> \o Big(n \div 256)

\* 2^k
BigPow2(k) == [i \in 1..(k \div 8 + 1) |-> IF i = k \div 8 + 1 THEN 2 ^ (k % 8) ELSE 0]

RECURSIVE AddFrom(_, _, _, _)
AddFrom(a, b, i, carry) ==
    IF i > Max(Len(a), Len(b)) THEN (IF carry = 0 THEN <<>> ELSE <<carry>>)
    ELSE LET t == Digit(a, i) + Digit(b, i) + carry
         IN  <<t % 256>> \o AddFrom(a, b, i + 1, t \div 256)

BigAdd(a, b) == Normalize(AddFrom(a, b, 1, 0))

\* a - b for a >= b
RECURSIVE SubFrom(_, _, _, _)
SubFrom(a, b, i, borrow) ==
    IF i > Len(a) THEN <<>>
    ELSE LET t == Digit(a, i) - Digit(b, i) - borrow
         IN  <<(t + 256) % 256>> \o SubFrom(a, b, i + 1, IF t < 0 THEN 1 ELSE 0)

BigSub(a, b) == Normalize(SubFrom(a, b, 1, 0))

RECURSIVE MulSmallFrom(_, _, _, _)
MulSmallFrom(a, m, i, carry) ==
    IF i > Len(a) THEN Big(carry)
    ELSE LET t == a[i] * m + carry
         IN  <<t % 256>> \o MulSmallFrom(a, m, i + 1, t \div 256)

RECURSIVE MulFrom(_, _, _)
MulFrom(a, b, i) ==
    IF i > Len(b) THEN <<>>
    ELSE BigAdd(Zeros(i - 1) \o MulSmallFrom(a, b[i], 1, 0), MulFrom(a, b, i + 1))

BigMul(a, b) == Normalize(MulFrom(a, b, 1))

\* floor(a / d) for a small divisor d
RECURSIVE DivSmallFrom(_, _, _, _)
DivSmallFrom(a, d, i, rem) ==
    IF i = 0 THEN <<>>
    ELSE LET cur == rem * 256 + a[i]
         IN  DivSmallFrom(a, d, i - 1, cur % d) \o <<cur \div d>>

BigDivSmall(a, d) == Normalize(DivSmallFrom(a, d, Len(a), 0))

RECURSIVE ModSmallFrom(_, _, _, _)
ModSmallFrom(a, d, i, rem) ==
    IF i = 0 THEN rem ELSE ModSmallFrom(a, d, i - 1, (rem * 256 + a[i]) % d)

BigModSmall(a, d) == ModSmallFrom(a, d, Len(a), 0)

RECURSIVE LessFrom(_, _, _)
LessFrom(a, b, i) ==
    IF i = 0 THEN FALSE
    ELSE IF a[i] # b[i] THEN a[i] < b[i]
    ELSE LessFrom(a, b, i - 1)

BigLess(a, b) == IF Len(a) # Len(b) THEN Len(a) < Len(b) ELSE LessFrom(a, b, Len(a))

\* number of base-256 digits of a u64
U64Digits == 8

Fits64(a) == Len(a) <= U64Digits

\* the low 64 bits
Wrap64(a) == Normalize(SubSeq(a, 1, Min(Len(a), U64Digits)))

\* a value computed without overflow so far
Exact64(a) == [val |-> a, ovf |-> FALSE]

\* x + y, x * y and x - y on u64
add_u64(x, y) ==
    LET s == BigAdd(x.val, y.val)
    IN  [val |-> Wrap64(s), ovf |-> x.ovf \/ y.ovf \/ ~Fits64(s)]

mul_u64(x, y) ==
    LET p == BigMul(x.val, y.val)
    IN  [val |-> Wrap64(p), ovf |-> x.ovf \/ y.ovf \/ ~Fits64(p)]

sub_u64(x, y) ==
    IF BigLess(x.val, y.val)
    THEN [val |-> Wrap64(BigSub(BigAdd(x.val, BigPow2(64)), y.val)), ovf |-> TRUE]
    ELSE [val |-> BigSub(x.val, y.val), ovf |-> x.ovf \/ y.ovf]

\* usize::div_ceil(32) = self / 32 + (1 if self % 32 > 0): it cannot overflow
div_ceil32_u64(size) ==
    LET d == BigDivSmall(size, 32)
    IN  IF BigModSmall(size, 32) > 0 THEN BigAdd(d, Big(1)) ELSE d

\* memory_cost of calculate_memory_expansion_cost on 64-bit values
memory_cost_u64(size) ==
    LET size_in_words == Exact64(div_ceil32_u64(size))
        linear_cost == mul_u64(size_in_words, Exact64(Big(3)))
        square == mul_u64(size_in_words, size_in_words)
        quadratic_cost == [square EXCEPT !.val = BigDivSmall(@, 512)]
    IN  add_u64(linear_cost, quadratic_cost)

calculate_memory_expansion_cost_u64(old_size, new_size) ==
    IF ~BigLess(old_size, new_size) THEN Exact64(<<>>)
    ELSE sub_u64(memory_cost_u64(new_size), memory_cost_u64(old_size))

\* the `if new_memory_size > context.memory_size` around the expansion cost
expansion_if_larger_u64(memory_size, new_memory_size) ==
    IF BigLess(memory_size, new_memory_size.val)
    THEN LET e == calculate_memory_expansion_cost_u64(memory_size, new_memory_size.val)
         IN  [e EXCEPT !.ovf = @ \/ new_memory_size.ovf]
    ELSE [val |-> <<>>, ovf |-> new_memory_size.ovf]

\* calculate_memory_cost on 64-bit operands (the operand is present)
calculate_memory_cost_u64(opcode, memory_size, ops) ==
    LET offset == Exact64(ops[1])
        size == Exact64(Big(IF opcode = MSTORE8 THEN 1 ELSE 32))
    IN  expansion_if_larger_u64(memory_size, add_u64(offset, size))

\* calculate_log_cost on 64-bit operands (both operands are present)
calculate_log_cost_u64(opcode, memory_size, ops) ==
    LET offset == Exact64(ops[1])
        size == Exact64(ops[2])
        topic_count == Exact64(Big(opcode - LOG0))
        expansion_cost == expansion_if_larger_u64(memory_size, add_u64(offset, size))
        log_cost == add_u64(mul_u64(topic_count, Exact64(Big(375))),
                            mul_u64(size, Exact64(Big(8))))
    IN  add_u64(expansion_cost, log_cost)

\* the surcharge formulas of calculate_dynamic_cost modelled on 64 bits
calculate_dynamic_cost_u64(opcode, memory_size, ops) ==
    IF opcode \in MemOps
    THEN calculate_memory_cost_u64(opcode, memory_size, ops)
    ELSE calculate_log_cost_u64(opcode, memory_size, ops)

----------------------------------------------------------------------------
(* The surcharge of one memory or LOG opcode on 64-bit operands: the       *)
(* opcode and the operands are drawn in Init, Surcharge64 is the call.     *)

\* operand and memory sizes around the points where the arithmetic wraps
WideValues ==
    { Big(0), Big(64), Big(1000000),
      BigSub(BigPow2(37), Big(32)),   \* 2^32 - 1 words
      BigPow2(37),                    \* 2^32 words: words * words = 2^64
      BigSub(BigPow2(61), Big(1)),    \* 8 * size = 2^64 - 8
      BigPow2(61),                    \* 8 * size = 2^64
      BigSub(BigPow2(64), Big(33)),
      BigSub(BigPow2(64), Big(32)),   \* offset + 32 = 2^64
      BigSub(BigPow2(64), Big(1)) }   \* u64::MAX

WideMemorySizes == {Big(0), Big(64), BigSub(BigPow2(37), Big(32))}

WideOpcodes == MemOps \cup {LOG0, LOG2}

WideInit ==
    /\ q_opcode \in WideOpcodes
    /\ q_operands \in IF q_opcode \in MemOps
                      THEN {<<offset>> : offset \in WideValues}
                      ELSE {<<offset, size>> : offset \in WideValues, size \in WideValues}
    /\ call \in {Call("calculate_dynamic_cost", <<memory_size>>)
                  : memory_size \in WideMemorySizes}
    /\ status = "query"
    /\ outcome = NoOutcome
    /\ fork = Cancun
    /\ key_order = RegisteredForks
    /\ context = NewContext
    /\ NoSequence

\* the call: when a step overflows, the build with overflow checks panics
\* and the build without them returns the wrapped value
Surcharge64 ==
    /\ status = "query"
    /\ LET r == calculate_dynamic_cost_u64(q_opcode, call.args[1], q_operands)
       IN  \/ /\ r.ovf
              /\ status' = "panicked"
              /\ UNCHANGED outcome
           \/ /\ outcome' = Ok(r.val)
              /\ status' = "answered"
    /\ UNCHANGED <<fork, key_order, input, context, total_gas, breakdown, warnings,
                   q_opcode, q_operands, call>>

WideNext == Surcharge64

WideSpec == WideInit /\ [][WideNext]_vars

\* cost(size) = 3 * ceil(size/32) + floor(ceil(size/32)^2 / 512), exactly
ExactMemoryCost(size) ==
    LET words == div_ceil32_u64(size)
    IN  BigAdd(BigMul(words, Big(3)), BigDivSmall(BigMul(words, words), 512))

ExactExpansion(memory_size, new_size) ==
    IF BigLess(memory_size, new_size)
    THEN BigSub(ExactMemoryCost(new_size), ExactMemoryCost(memory_size))
    ELSE <<>>

\* the surcharge as the mathematical value of its formula
ExactSurcharge(opcode, memory_size, ops) ==
    IF opcode \in MemOps
    THEN ExactExpansion(memory_size,
                        BigAdd(ops[1], Big(IF opcode = MSTORE8 THEN 1 ELSE 32)))
    ELSE BigAdd(ExactExpansion(memory_size, BigAdd(ops[1], ops[2])),
                BigAdd(Big((opcode - LOG0) * 375), BigMul(ops[2], Big(8))))

\* C30: for every 64-bit operand value no step of the surcharge arithmetic
\* (offset + size, words * words, 8 * size) overflows or wraps: the call
\* never panics and returns the mathematically exact surcharge.
C30_NoOverflow ==
    /\ status # "panicked"
    /\ status = "answered" =>
          outcome = Ok(ExactSurcharge(q_opcode, call.args[1], q_operands))

====
